---------------------------- MODULE Spec2Model ----------------------------
(***************************************************************************)
(* A model of font_splitter.py: the frequency loader, the font inspector,  *)
(* the unicode-range merge and the pipeline of main().                     *)
(*                                                                         *)
(* A Python str is modelled as a sequence of one-character strings, so     *)
(* that strip, split, int and the f-string formatting are computed and     *)
(* not assumed.  A character of the font is a one-character string; ord    *)
(* and chr are tables over the characters the model uses.                  *)
(***************************************************************************)
EXTENDS Integers, Sequences, FiniteSets, TLC

VARIABLES
    pc,              \* position of the run in main(), or of a function call
    exit_status,     \* -1 while running, else the status the process exits with
    input_isfile,    \* os.path.isfile(args.input)
    freq_isfile,     \* os.path.isfile(args.freq)
    args_groups,     \* args.groups
    freq_file,       \* the lines of the frequency file
    cmap,            \* the code points keyed in the font's cmap tables
    dir_created,     \* os.makedirs(args.output_dir) has run
    freq_data,       \* main: freq_data (load_frequency_data's char_freq)
    all_chars,       \* main: all_chars
    char_freq_list,  \* main: char_freq_list
    groups,          \* main: groups
    i,               \* main: index of the group the emit loop is at (0-based)
    css_rules,       \* main: css_rules
    subset_calls,    \* group indices pyftsubset was invoked for, in order
    subset_files,    \* group indices whose subset file is on disk
    subset_failed,   \* group indices whose subsetting raised
    css_file,        \* what was written to args.css, one entry per write
    codes,           \* main: codes, as create_unicode_range leaves it (sorted)
    codes_arg,       \* the list create_unicode_range was called with
    unicode_range    \* main: unicode_range

vars == <<pc, exit_status, input_isfile, freq_isfile, args_groups, freq_file,
          cmap, dir_created, freq_data, all_chars, char_freq_list, groups, i,
          css_rules, subset_calls, subset_files, subset_failed, css_file,
          codes, codes_arg, unicode_range>>

-----------------------------------------------------------------------------
(* Bounds of the model.                                                    *)

MaxGroups == 4

MaxFileLines == 3

MaxCodes == 4

-----------------------------------------------------------------------------
(* Characters.                                                             *)

\* ord() over the characters of the model.  "NUL" stands for '\x00'.
OrdTable ==
    [c \in {"NUL", "\t", "A", "B", "C", "D", "Z"} |->
        CASE c = "NUL" -> 0
          [] c = "\t"  -> 9
          [] c = "A"   -> 65
          [] c = "B"   -> 66
          [] c = "C"   -> 67
          [] c = "D"   -> 68
          [] c = "Z"   -> 90]

ord(c) == OrdTable[c]

\* chr() raises ValueError outside range(0x110000).
ChrValid(cp) == cp >= 0 /\ cp < 1114112

chr(cp) == CHOOSE c \in DOMAIN OrdTable : OrdTable[c] = cp

\* unicodedata.category(char).startswith('C'): U+0000 and U+0009 are Cc.
CategoryC(c) == c \in {"NUL", "\t"}

-----------------------------------------------------------------------------
(* Python list and str built-ins.                                          *)

RECURSIVE InsertAsc(_, _)
InsertAsc(s, x) ==
    IF s = <<>> THEN <<x>>
    ELSE IF x < Head(s) THEN <<x>> \o s
    ELSE <<Head(s)>> \o InsertAsc(Tail(s), x)

\* list.sort() on integers
RECURSIVE SortAsc(_)
SortAsc(s) ==
    IF s = <<>> THEN <<>>
    ELSE InsertAsc(SortAsc(SubSeq(s, 1, Len(s) - 1)), s[Len(s)])

Whitespace == {" ", "\t"}

RECURSIVE lstrip(_)
lstrip(s) ==
    IF s # <<>> /\ Head(s) \in Whitespace THEN lstrip(Tail(s)) ELSE s

RECURSIVE rstrip(_)
rstrip(s) ==
    IF s # <<>> /\ s[Len(s)] \in Whitespace
    THEN rstrip(SubSeq(s, 1, Len(s) - 1)) ELSE s

\* str.strip()
strip(s) == rstrip(lstrip(s))

\* sep in s
Contains(s, sep) == \E k \in 1..Len(s) : s[k] = sep

\* str.split(sep) for a one-character sep: always at least one field
RECURSIVE split(_, _)
split(s, sep) ==
    IF ~Contains(s, sep) THEN <<s>>
    ELSE LET k == CHOOSE k \in 1..Len(s) :
                      s[k] = sep /\ \A j \in 1..(k - 1) : s[j] # sep
         IN  <<SubSeq(s, 1, k - 1)>> \o split(SubSeq(s, k + 1, Len(s)), sep)

\* sep.join(parts)
RECURSIVE join(_, _)
join(sep, parts) ==
    IF parts = <<>> THEN <<>>
    ELSE IF Len(parts) = 1 THEN parts[1]
    ELSE parts[1] \o sep \o join(sep, Tail(parts))

DecDigits == <<"0", "1", "2", "3", "4", "5", "6", "7", "8", "9">>

IsDecDigit(c) == \E d \in 1..10 : DecDigits[d] = c

DecDigitVal(c) == (CHOOSE d \in 1..10 : DecDigits[d] = c) - 1

RECURSIVE DecVal(_)
DecVal(s) ==
    IF s = <<>> THEN 0
    ELSE 10 * DecVal(SubSeq(s, 1, Len(s) - 1)) + DecDigitVal(s[Len(s)])

\* the digits of an int() literal: whitespace stripped, one optional sign
IntBody(s) ==
    LET t == strip(s)
    IN  IF t # <<>> /\ t[1] \in {"+", "-"} THEN Tail(t) ELSE t

\* int(s) does not raise ValueError
IntParses(s) ==
    IntBody(s) # <<>> /\ \A k \in 1..Len(IntBody(s)) : IsDecDigit(IntBody(s)[k])

\* int(s)
int(s) ==
    LET t == strip(s)
    IN  IF t[1] = "-" THEN 0 - DecVal(IntBody(s)) ELSE DecVal(IntBody(s))

HexDigits == <<"0", "1", "2", "3", "4", "5", "6", "7", "8", "9",
               "A", "B", "C", "D", "E", "F">>

RECURSIVE HexStr(_)
HexStr(n) ==
    IF n < 16 THEN <<HexDigits[n + 1]>>
    ELSE HexStr(n \div 16) \o <<HexDigits[(n % 16) + 1]>>

RECURSIVE ZeroPad(_, _)
ZeroPad(s, width) == IF Len(s) >= width THEN s ELSE ZeroPad(<<"0">> \o s, width)

\* f"{n:04X}"
Format04X(n) == ZeroPad(HexStr(n), 4)

-----------------------------------------------------------------------------
(* create_unicode_range                                                    *)

\* f"U+{start:04X}" / f"U+{start:04X}-{end:04X}"
FormatRun(start, end) ==
    IF start = end
    THEN <<"U", "+">> \o Format04X(start)
    ELSE <<"U", "+">> \o Format04X(start) \o <<"-">> \o Format04X(end)

\* the for loop over codes[1:], carrying (ranges, start, end)
RECURSIVE RangeLoop(_, _, _, _)
RangeLoop(rest, ranges, start, end) ==
    IF rest = <<>> THEN Append(ranges, FormatRun(start, end))
    ELSE IF Head(rest) = end + 1
         THEN RangeLoop(Tail(rest), ranges, start, Head(rest))
         ELSE RangeLoop(Tail(rest), Append(ranges, FormatRun(start, end)),
                        Head(rest), Head(rest))

\* create_unicode_range without codes.sort()
create_unicode_range_unsorted(cs) ==
    IF cs = <<>> THEN <<>>
    ELSE join(<<",", " ">>, RangeLoop(Tail(cs), <<>>, cs[1], cs[1]))

create_unicode_range(cs) ==
    IF cs = <<>> THEN <<>>
    ELSE LET sorted == SortAsc(cs)
         IN  join(<<",", " ">>,
                  RangeLoop(Tail(sorted), <<>>, sorted[1], sorted[1]))

-----------------------------------------------------------------------------
(* load_frequency_data                                                     *)

\* char_freq.setdefault(char, freq): the first occurrence is kept
DictSetKeepsFirst(d, key, value) ==
    [k \in (DOMAIN d) \cup {key} |-> IF k \in DOMAIN d THEN d[k] ELSE value]

\* char_freq[char] = freq
DictSet(d, key, value) ==
    [k \in (DOMAIN d) \cup {key} |-> IF k = key THEN value ELSE d[k]]

\* d.get(key, default)
DictGet(d, key, default) == IF key \in DOMAIN d THEN d[key] ELSE default

\* one iteration of the loop over the lines of the file
LoadLine(char_freq, raw) ==
    LET line == strip(raw)
    IN  IF line = <<>> \/ line[1] = "#" THEN char_freq
        ELSE LET parts == IF Contains(line, "\t") THEN split(line, "\t")
                          ELSE split(line, ",")
             IN  IF Len(parts) < 2 THEN char_freq
                 ELSE IF IntParses(parts[2])
                      THEN DictSet(char_freq, parts[1], int(parts[2]))
                      ELSE char_freq

RECURSIVE LoadLoop(_, _)
LoadLoop(lines, char_freq) ==
    IF lines = <<>> THEN char_freq
    ELSE LoadLoop(Tail(lines), LoadLine(char_freq, Head(lines)))

load_frequency_data(lines) == LoadLoop(lines, <<>>)

-----------------------------------------------------------------------------
(* get_chars_from_font                                                     *)

\* sorted(list(chars)): one-character strings compare by code point
RECURSIVE SortedChars(_)
SortedChars(chars) ==
    IF chars = {} THEN <<>>
    ELSE LET lo == CHOOSE c \in chars : \A d \in chars : ord(c) <= ord(d)
         IN  <<lo>> \o SortedChars(chars \ {lo})

get_chars_from_font(table) ==
    SortedChars({chr(cp) : cp \in {x \in table : ChrValid(x)
                                       /\ chr(x) # "NUL"
                                       /\ ~CategoryC(chr(x))}})

-----------------------------------------------------------------------------
(* main: ranking and partitioning                                          *)

\* char_freq_list before the sort: (char, freq_data.get(char, 0))
PairWithFreq(chars, table) ==
    [k \in 1..Len(chars) |-> <<chars[k], DictGet(table, <<chars[k]>>, 0)>>]

\* an unstable descending sort: an entry goes before its equals
RECURSIVE InsertByFreqUnstable(_, _)
InsertByFreqUnstable(s, x) ==
    IF s = <<>> THEN <<x>>
    ELSE IF Head(s)[2] > x[2]
         THEN <<Head(s)>> \o InsertByFreqUnstable(Tail(s), x)
    ELSE <<x>> \o s

\* where the sort puts an entry that came after all of s in the list
RECURSIVE InsertByFreq(_, _)
InsertByFreq(s, x) ==
    IF s = <<>> THEN <<x>>
    ELSE IF Head(s)[2] >= x[2] THEN <<Head(s)>> \o InsertByFreq(Tail(s), x)
    ELSE <<x>> \o s

\* char_freq_list.sort(key=lambda x: x[1], reverse=True)
RECURSIVE SortByFreqDesc(_)
SortByFreqDesc(s) ==
    IF s = <<>> THEN <<>>
    ELSE InsertByFreq(SortByFreqDesc(SubSeq(s, 1, Len(s) - 1)), s[Len(s)])

\* k * (total_chars // args.groups): the remainder is dropped
BoundaryTruncated(k, total_chars, n) == k * (total_chars \div n)

\* boundaries rounded up instead of down
BoundaryCeil(k, total_chars, n) == (k * total_chars + n - 1) \div n

\* k * total_chars // args.groups
Boundary(k, total_chars, n) == (k * total_chars) \div n

\* [char for char, freq in char_freq_list[start:end]], start and end 0-based
Slice(list, start, end) ==
    [k \in 1..(end - start) |-> list[start + k][1]]

\* the groups built by the loop over range(args.groups); range(n) is empty
\* for n <= 0
Partition(list, n) ==
    [k \in 1..(IF n > 0 THEN n ELSE 0) |->
        Slice(list, Boundary(k - 1, Len(list), n), Boundary(k, Len(list), n))]

-----------------------------------------------------------------------------
(* Inputs of the model.                                                    *)

\* code points a font's cmap may key: NUL, TAB, five letters, and one
\* value chr() rejects
FontCodes == {0, 9, 65, 66, 67, 68, 90, 1114112}

\* frequency files of the pipeline runs
MainFiles ==
    { <<>>,
      <<<<"Z", "\t", "2">>, <<"A", ",", "1">>>>,
      <<<<"C", ",", "5">>, <<"A", ",", "5">>>>,
      <<<<"B", ",", "-", "1">>>>,
      <<<<"A">>, <<"B", ",", "2">>, <<"B", ",", "1">>>> }

\* lines of the frequency files the loader is applied to
LoadLines ==
    { <<>>,
      <<"A", "\t", "5">>,
      <<"A", ",", "2">>,
      <<"B", ",", "1">>,
      <<"A">>,
      <<"#", "A", ",", "9">>,
      <<"B", "\t", "x">>,
      <<"A", ",", "-", "1">>,
      <<" ", "B", ",", " ", "7", " ">>,
      <<"A", ",", "5", "\t", "2">>,
      <<"B", ",", "3", ",", "x">>,
      <<"\t", "5">>,
      <<" ", ",", "5">> }

\* code points create_unicode_range is applied to
RangeCodes == {5, 65, 66, 67, 90, 255, 256, 65535, 65536, 128512}

SeqsUpTo(S, n) == UNION {[1..m -> S] : m \in 0..n}

DistinctSeqsUpTo(S, n) ==
    {s \in SeqsUpTo(S, n) : \A a, b \in 1..Len(s) : a # b => s[a] # s[b]}

-----------------------------------------------------------------------------
(* main                                                                    *)

Locals0 ==
    /\ exit_status = -1
    /\ dir_created = FALSE
    /\ freq_data = <<>>
    /\ all_chars = <<>>
    /\ char_freq_list = <<>>
    /\ groups = <<>>
    /\ i = 0
    /\ css_rules = <<>>
    /\ subset_calls = <<>>
    /\ subset_files = {}
    /\ subset_failed = {}
    /\ css_file = <<>>
    /\ unicode_range = <<>>

Init ==
    /\ pc = "check_input"
    /\ input_isfile \in BOOLEAN
    /\ freq_isfile \in BOOLEAN
    /\ args_groups \in (-1)..MaxGroups
    /\ freq_file \in (IF freq_isfile THEN MainFiles ELSE {<<>>})
    /\ cmap \in (IF input_isfile THEN SUBSET FontCodes ELSE {{}})
    /\ codes_arg = <<>>
    /\ codes = <<>>
    /\ Locals0

env == <<input_isfile, freq_isfile, args_groups, freq_file, cmap>>

emitted == <<css_rules, subset_calls, subset_files, subset_failed, css_file,
             codes, codes_arg, unicode_range>>

\* sys.exit(status), or the process ending on an unhandled exception
Exit(status) == pc' = "exit" /\ exit_status' = status

\* if not os.path.isfile(args.input): sys.exit(1)
CheckInput ==
    /\ pc = "check_input"
    /\ IF ~input_isfile THEN Exit(1)
       ELSE pc' = "check_freq" /\ UNCHANGED exit_status
    /\ UNCHANGED <<env, dir_created, freq_data, all_chars, char_freq_list,
                   groups, i, emitted>>

\* the frequency-file check without its sys.exit
CheckFreqProceeds ==
    /\ pc = "check_freq"
    /\ pc' = "makedirs"
    /\ UNCHANGED <<env, exit_status, dir_created, freq_data, all_chars,
                   char_freq_list, groups, i, emitted>>

\* if not os.path.isfile(args.freq): sys.exit(1)
CheckFreq ==
    /\ pc = "check_freq"
    /\ IF ~freq_isfile THEN Exit(1)
       ELSE pc' = "makedirs" /\ UNCHANGED exit_status
    /\ UNCHANGED <<env, dir_created, freq_data, all_chars, char_freq_list,
                   groups, i, emitted>>

\* os.makedirs(args.output_dir, exist_ok=True)
MakeDirs ==
    /\ pc = "makedirs"
    /\ dir_created' = TRUE
    /\ pc' = "load"
    /\ UNCHANGED <<env, exit_status, freq_data, all_chars, char_freq_list,
                   groups, i, emitted>>

\* freq_data = load_frequency_data(args.freq)
LoadFrequency ==
    /\ pc = "load"
    /\ freq_data' = load_frequency_data(freq_file)
    /\ pc' = "get_chars"
    /\ UNCHANGED <<env, exit_status, dir_created, all_chars, char_freq_list,
                   groups, i, emitted>>

\* all_chars = get_chars_from_font(args.input)
GetChars ==
    /\ pc = "get_chars"
    /\ all_chars' = get_chars_from_font(cmap)
    /\ pc' = "rank"
    /\ UNCHANGED <<env, exit_status, dir_created, freq_data, char_freq_list,
                   groups, i, emitted>>

\* step 3: build char_freq_list and sort it
Rank ==
    /\ pc = "rank"
    /\ char_freq_list' = SortByFreqDesc(PairWithFreq(all_chars, freq_data))
    /\ pc' = "partition"
    /\ UNCHANGED <<env, exit_status, dir_created, freq_data, all_chars,
                   groups, i, emitted>>

\* step 4: build groups
MakeGroups ==
    /\ pc = "partition"
    /\ groups' = Partition(char_freq_list, args_groups)
    /\ i' = 0
    /\ pc' = "emit"
    /\ UNCHANGED <<env, exit_status, dir_created, freq_data, all_chars,
                   char_freq_list, emitted>>

\* the emit loop is at group i
AtGroup == pc = "emit" /\ i < Len(groups)

\* css_rule for group idx
CssRule(idx, range) == [subset |-> idx, unicode_range |-> range]

\* an empty group handed to the subsetting operation like any other
EmitSkipEmptySubsets ==
    /\ AtGroup
    /\ groups[i + 1] = <<>>
    /\ subset_calls' = Append(subset_calls, i)
    /\ subset_files' = subset_files \cup {i}
    /\ css_rules' = Append(css_rules, CssRule(i, <<>>))
    /\ i' = i + 1
    /\ UNCHANGED <<pc, env, exit_status, dir_created, freq_data, all_chars,
                   char_freq_list, groups, subset_failed, css_file, codes,
                   codes_arg, unicode_range>>

\* if not group: continue
EmitSkipEmpty ==
    /\ AtGroup
    /\ groups[i + 1] = <<>>
    /\ i' = i + 1
    /\ UNCHANGED <<pc, env, exit_status, dir_created, freq_data, all_chars,
                   char_freq_list, groups, emitted>>

\* the try block runs to its end: pyftsubset exits 0 having written the
\* file at subset_path, getsize reads it, the rule is appended
EmitSubsetOk ==
    /\ AtGroup
    /\ groups[i + 1] # <<>>
    /\ subset_calls' = Append(subset_calls, i)
    /\ subset_files' = subset_files \cup {i}
    /\ codes_arg' = [k \in 1..Len(groups[i + 1]) |-> ord(groups[i + 1][k])]
    /\ codes' = SortAsc(codes_arg')
    /\ unicode_range' = create_unicode_range(codes_arg')
    /\ css_rules' = Append(css_rules, CssRule(i, unicode_range'))
    /\ i' = i + 1
    /\ UNCHANGED <<pc, env, exit_status, dir_created, freq_data, all_chars,
                   char_freq_list, groups, subset_failed, css_file>>

\* a failure that ends the loop (break instead of continue)
EmitSubsetFailBreaks ==
    /\ AtGroup
    /\ groups[i + 1] # <<>>
    /\ subset_calls' = Append(subset_calls, i)
    /\ subset_failed' = subset_failed \cup {i}
    /\ i' = Len(groups)
    /\ UNCHANGED <<pc, env, exit_status, dir_created, freq_data, all_chars,
                   char_freq_list, groups, css_rules, subset_files, css_file,
                   codes, codes_arg, unicode_range>>

\* subprocess.run raises (non-zero exit, or any other error of the try
\* block): no file, no rule; the except clause prints and continues
EmitSubsetFail ==
    /\ AtGroup
    /\ groups[i + 1] # <<>>
    /\ subset_calls' = Append(subset_calls, i)
    /\ subset_failed' = subset_failed \cup {i}
    /\ i' = i + 1
    /\ UNCHANGED <<pc, env, exit_status, dir_created, freq_data, all_chars,
                   char_freq_list, groups, css_rules, subset_files, css_file,
                   codes, codes_arg, unicode_range>>

\* step 6: the stylesheet is written and main returns
WriteCss ==
    /\ pc = "emit"
    /\ i = Len(groups)
    /\ css_file' = Append(css_file, [count |-> Len(css_rules), rules |-> css_rules])
    /\ pc' = "done"
    /\ exit_status' = 0
    /\ UNCHANGED <<env, dir_created, freq_data, all_chars, char_freq_list,
                   groups, i, css_rules, subset_calls, subset_files,
                   subset_failed, codes, codes_arg, unicode_range>>

\* step 6: open(args.css, 'w') or a write raises; nothing catches it
WriteCssFail ==
    /\ pc = "emit"
    /\ i = Len(groups)
    /\ Exit(1)
    /\ UNCHANGED <<env, dir_created, freq_data, all_chars, char_freq_list,
                   groups, i, emitted>>

Next ==
    \/ CheckInput
    \/ CheckFreq
    \/ MakeDirs
    \/ LoadFrequency
    \/ GetChars
    \/ Rank
    \/ MakeGroups
    \/ EmitSkipEmpty
    \/ EmitSubsetOk
    \/ EmitSubsetFail
    \/ WriteCss
    \/ WriteCssFail

Spec == Init /\ [][Next]_vars

-----------------------------------------------------------------------------
(* load_frequency_data applied to frequency files                          *)

InitLoad ==
    /\ pc = "call_load"
    /\ input_isfile = TRUE
    /\ freq_isfile = TRUE
    /\ args_groups = 1
    /\ freq_file \in SeqsUpTo(LoadLines, MaxFileLines)
    /\ cmap = {}
    /\ codes_arg = <<>>
    /\ codes = <<>>
    /\ Locals0

LoadCall ==
    /\ pc = "call_load"
    /\ freq_data' = load_frequency_data(freq_file)
    /\ pc' = "ret_load"
    /\ UNCHANGED <<env, exit_status, dir_created, all_chars, char_freq_list,
                   groups, i, emitted>>

NextLoad == LoadCall

SpecLoad == InitLoad /\ [][NextLoad]_vars

-----------------------------------------------------------------------------
(* create_unicode_range applied to lists of distinct code points           *)

InitRange ==
    /\ pc = "call_range"
    /\ input_isfile = TRUE
    /\ freq_isfile = TRUE
    /\ args_groups = 1
    /\ freq_file = <<>>
    /\ cmap = {}
    /\ codes_arg \in DistinctSeqsUpTo(RangeCodes, MaxCodes)
    /\ codes = codes_arg
    /\ Locals0

\* unicode_range = create_unicode_range(codes); codes.sort() sorts in place
RangeCall ==
    /\ pc = "call_range"
    /\ codes' = SortAsc(codes)
    /\ unicode_range' = create_unicode_range(codes)
    /\ pc' = "ret_range"
    /\ UNCHANGED <<env, exit_status, dir_created, freq_data, all_chars,
                   char_freq_list, groups, i, css_rules, subset_calls,
                   subset_files, subset_failed, css_file, codes_arg>>

NextRange == RangeCall

SpecRange == InitRange /\ [][NextRange]_vars

-----------------------------------------------------------------------------
(* Properties of the partitioning step (main, step 4)                      *)

\* step 3 has run
RankDone == pc \in {"partition", "emit", "done"} \/ (pc = "exit" /\ dir_created)

\* step 4 has run
PartitionDone == pc \in {"emit", "done"} \/ (pc = "exit" /\ dir_created)

RankedChars == [k \in 1..Len(char_freq_list) |-> char_freq_list[k][1]]

RECURSIVE Flatten(_)
Flatten(ss) == IF ss = <<>> THEN <<>> ELSE Head(ss) \o Flatten(Tail(ss))

GroupSize(g) == Len(groups[g])

\* C1: for G >= 1 the partitioning step produces exactly G groups whose
\* concatenation in index order is the full ranked character list, every
\* character of the font is in exactly one group, and every group's size
\* differs from total/G by at most 1.
C1_PartitionExact ==
    (PartitionDone /\ args_groups >= 1) =>
        LET total == Len(char_freq_list)
        IN  /\ Len(groups) = args_groups
            /\ Flatten(groups) = RankedChars
            /\ \A k \in 1..Len(all_chars) :
                   Cardinality({<<g, m>> \in (1..Len(groups)) \X (1..total) :
                                   m <= GroupSize(g)
                                   /\ groups[g][m] = all_chars[k]}) = 1
            /\ \A g \in 1..Len(groups) :
                   /\ GroupSize(g) * args_groups - total <= args_groups
                   /\ total - GroupSize(g) * args_groups <= args_groups

C1_Witness ==
    /\ PartitionDone
    /\ args_groups >= 2
    /\ Len(char_freq_list) > args_groups
    /\ Len(char_freq_list) % args_groups # 0

\* C10 as stated: group sizes are non-increasing in the group index (the
\* remainder goes to the earlier groups).
C10_NonIncreasing ==
    (PartitionDone /\ args_groups >= 1) =>
        \A a, b \in 1..Len(groups) : a < b => GroupSize(a) >= GroupSize(b)

\* C10, amended: every group has floor(total/G) or floor(total/G)+1
\* characters, exactly total mod G groups have the larger size, the first
\* group has floor(total/G) and the last has ceil(total/G).
C10_FloorOrCeil ==
    (PartitionDone /\ args_groups >= 1) =>
        LET total == Len(char_freq_list)
            lo == total \div args_groups
            r == total % args_groups
        IN  /\ \A g \in 1..Len(groups) : GroupSize(g) \in {lo, lo + 1}
            /\ Cardinality({g \in 1..Len(groups) : GroupSize(g) = lo + 1}) = r
            /\ GroupSize(1) = lo
            /\ GroupSize(Len(groups)) = IF r = 0 THEN lo ELSE lo + 1

C10_Witness ==
    /\ PartitionDone
    /\ args_groups >= 3
    /\ Len(char_freq_list) % args_groups >= 2
    /\ \E a, b \in 1..Len(groups) : a < b /\ GroupSize(a) < GroupSize(b)

-----------------------------------------------------------------------------
(* Properties of the ranking step (main, step 3)                           *)

\* C5: the ranked list holds each character of the font once with its
\* looked-up frequency, ordered by frequency descending and, among equal
\* frequencies, by ascending code point; it is thereby determined by the
\* character set and the frequency table.
C5_RankedOrder ==
    RankDone =>
        /\ Len(char_freq_list) = Len(all_chars)
        /\ {char_freq_list[k] : k \in 1..Len(char_freq_list)} =
               {<<all_chars[k], DictGet(freq_data, <<all_chars[k]>>, 0)>> :
                    k \in 1..Len(all_chars)}
        /\ \A a, b \in 1..Len(char_freq_list) :
               a < b =>
                   \/ char_freq_list[a][2] > char_freq_list[b][2]
                   \/ /\ char_freq_list[a][2] = char_freq_list[b][2]
                      /\ ord(char_freq_list[a][1]) < ord(char_freq_list[b][1])

C5_Witness ==
    /\ RankDone
    /\ \E a, b \in 1..Len(char_freq_list) :
           /\ a < b
           /\ char_freq_list[a][2] = char_freq_list[b][2]
           /\ char_freq_list[a][2] > 0
    /\ \E a, b \in 1..Len(char_freq_list) :
           /\ a < b
           /\ char_freq_list[a][2] > char_freq_list[b][2]
           /\ ord(char_freq_list[a][1]) > ord(char_freq_list[b][1])

\* C8: every frequency held in the frequency table is non-negative, so no
\* character of the ranked list has a frequency below that of a character
\* absent from the table (0).
C8_NonNegative ==
    /\ \A key \in DOMAIN freq_data : freq_data[key] >= 0
    /\ RankDone =>
           \A a, b \in 1..Len(char_freq_list) :
               <<char_freq_list[b][1]>> \notin DOMAIN freq_data =>
                   char_freq_list[a][2] >= char_freq_list[b][2]

-----------------------------------------------------------------------------
(* Properties of the run (main)                                            *)

RunEnded == pc \in {"done", "exit"}

\* 0-based indices of the non-empty groups
NonEmptyGroups == {g \in 0..(Len(groups) - 1) : groups[g + 1] # <<>>}

Called == {subset_calls[k] : k \in 1..Len(subset_calls)}

\* C3: a group count G <= 0 is rejected before partitioning: the run never
\* executes the partitioning step, never invokes the subsetting operation,
\* never writes a stylesheet and does not end successfully.
C3_NonPositiveRejected ==
    args_groups <= 0 =>
        /\ ~PartitionDone
        /\ subset_calls = <<>>
        /\ css_file = <<>>
        /\ ~(RunEnded /\ exit_status = 0)

\* C7: if the input font or the frequency file is missing the run ends with
\* a non-zero status during the checks: the output directory is not
\* created, the loader, the inspector and the subsetting operation do not
\* run, and no stylesheet is written.
C7_PreflightAbort ==
    (~input_isfile \/ ~freq_isfile) =>
        /\ pc \in {"check_input", "check_freq", "exit"}
        /\ pc = "check_freq" => input_isfile
        /\ RunEnded => exit_status # 0
        /\ ~dir_created
        /\ freq_data = <<>>
        /\ all_chars = <<>>
        /\ char_freq_list = <<>>
        /\ groups = <<>>
        /\ subset_calls = <<>>
        /\ subset_files = {}
        /\ css_file = <<>>

C7_Witness ==
    /\ pc = "exit"
    /\ exit_status = 1
    /\ input_isfile
    /\ ~freq_isfile

\* C2 as stated, for the runs whose stylesheet write succeeds: if
\* subsetting failed for exactly one of the G >= 1 groups, the run emitted
\* G-1 subset files and a stylesheet with G-1 rules, and exits 0.
C2_OneFailureOfG ==
    (pc = "done" /\ args_groups >= 1 /\ Cardinality(subset_failed) = 1) =>
        /\ Cardinality(subset_files) = args_groups - 1
        /\ Len(css_file) = 1
        /\ Len(css_file[1].rules) = args_groups - 1
        /\ exit_status = 0

\* C2, amended: with N the number of non-empty groups (N = G when the font
\* has at least G characters), if subsetting failed for exactly one group
\* then every non-empty group was still handed to the subsetting
\* operation, N-1 subset files were emitted and, when the stylesheet write
\* succeeds, the stylesheet holds exactly N-1 rules and the run exits 0.
C2_FailureIsolated ==
    (RunEnded /\ dir_created /\ args_groups >= 1
        /\ Cardinality(subset_failed) = 1) =>
        LET n == Cardinality(NonEmptyGroups)
        IN  /\ Called = NonEmptyGroups
            /\ Len(subset_calls) = n
            /\ Cardinality(subset_files) = n - 1
            /\ Len(char_freq_list) >= args_groups => n = args_groups
            /\ pc = "done" =>
                   /\ Len(css_file) = 1
                   /\ Len(css_file[1].rules) = n - 1
                   /\ css_file[1].count = n - 1
                   /\ exit_status = 0

C2_Witness ==
    /\ pc = "done"
    /\ args_groups >= 3
    /\ Cardinality(subset_failed) = 1
    /\ \E f \in subset_failed : \E g \in subset_files : f < g
    /\ \E g \in 0..(Len(groups) - 1) : g \notin NonEmptyGroups

\* C9: the stylesheet is written at most once and only after every group
\* was attempted; a run that passes the checks and writes it has written it
\* exactly once, with one rule for group i iff group i is non-empty and its
\* subsetting succeeded, in ascending group order, and a header count equal
\* to the number of rules; the subsetting operation ran once for each
\* non-empty group and for no empty one, and left a file only on success.
C9_Stylesheet ==
    /\ Len(css_file) <= 1
    /\ css_file # <<>> => (pc = "done" /\ i = Len(groups))
    /\ (pc = "emit" \/ pc = "done") =>
           /\ Called = {g \in NonEmptyGroups : g < i}
           /\ \A a, b \in 1..Len(subset_calls) :
                  a < b => subset_calls[a] < subset_calls[b]
           /\ subset_files = Called \ subset_failed
           /\ subset_failed \subseteq Called
    /\ pc = "done" =>
           /\ Len(css_file) = 1
           /\ Called = NonEmptyGroups
           /\ LET rules == css_file[1].rules
              IN  /\ css_file[1].count = Len(rules)
                  /\ {rules[k].subset : k \in 1..Len(rules)} =
                         {g \in NonEmptyGroups : g \notin subset_failed}
                  /\ \A a, b \in 1..Len(rules) :
                         a < b => rules[a].subset < rules[b].subset

C9_Witness ==
    /\ pc = "done"
    /\ NonEmptyGroups # 0..(Len(groups) - 1)
    /\ Cardinality(subset_failed) >= 1
    /\ Cardinality(subset_files) >= 2
    /\ \E f \in subset_failed : \E g \in subset_files : f < g

-----------------------------------------------------------------------------
(* Properties of load_frequency_data                                       *)

\* the fields of a line: split on tab if the line holds one, else on comma
Fields(raw) ==
    IF Contains(strip(raw), "\t") THEN split(strip(raw), "\t")
    ELSE split(strip(raw), ",")

Blank(raw) == strip(raw) = <<>>

Comment(raw) == ~Blank(raw) /\ strip(raw)[1] = "#"

WellFormed(raw) ==
    /\ ~Blank(raw)
    /\ ~Comment(raw)
    /\ Len(Fields(raw)) >= 2
    /\ IntParses(Fields(raw)[2])

\* the table of the well-formed lines, the last occurrence of a key winning
TableOfWellFormed(lines) ==
    LET good == {k \in 1..Len(lines) : WellFormed(lines[k])}
        keys == {Fields(lines[k])[1] : k \in good}
        last(key) == CHOOSE k \in good :
                         /\ Fields(lines[k])[1] = key
                         /\ \A m \in good : Fields(lines[m])[1] = key => m <= k
    IN  [key \in keys |-> int(Fields(lines[last(key)])[2])]

\* C6: the loader returns exactly the table built from the well-formed
\* lines: blank lines, comments, lines with fewer than two fields or a
\* non-integer second field add nothing, the lines after a bad line are
\* still processed, and the last occurrence of a character wins.
C6_LoadTable ==
    pc = "ret_load" =>
        /\ freq_data = TableOfWellFormed(freq_file)
        /\ \A k \in 1..Len(freq_file) :
               WellFormed(freq_file[k]) =>
                   Fields(freq_file[k])[1] \in DOMAIN freq_data

C6_Witness ==
    /\ pc = "ret_load"
    /\ \E a, b, c \in 1..Len(freq_file) :
           /\ a < b /\ b < c
           /\ WellFormed(freq_file[a])
           /\ ~WellFormed(freq_file[b])
           /\ ~Blank(freq_file[b]) /\ ~Comment(freq_file[b])
           /\ WellFormed(freq_file[c])
           /\ Fields(freq_file[a])[1] = Fields(freq_file[c])[1]
           /\ int(Fields(freq_file[a])[2]) # int(Fields(freq_file[c])[2])
           /\ freq_data[Fields(freq_file[c])[1]] = int(Fields(freq_file[c])[2])

-----------------------------------------------------------------------------
(* Properties of create_unicode_range                                      *)

IsHexDigit(c) == \E d \in 1..16 : HexDigits[d] = c

HexDigitVal(c) == (CHOOSE d \in 1..16 : HexDigits[d] = c) - 1

RECURSIVE HexVal(_)
HexVal(s) ==
    IF s = <<>> THEN 0
    ELSE 16 * HexVal(SubSeq(s, 1, Len(s) - 1)) + HexDigitVal(s[Len(s)])

\* XXXX: upper-case hexadecimal, zero-padded to four digits and no further
HexWord(s) ==
    /\ Len(s) >= 4
    /\ \A k \in 1..Len(s) : IsHexDigit(s[k])
    /\ Len(s) > 4 => s[1] # "0"

\* the comma-separated items of a unicode-range value, the blank that
\* follows each comma removed
Items(text) ==
    LET parts == split(text, ",")
    IN  [k \in 1..Len(parts) |-> IF k = 1 THEN parts[k] ELSE Tail(parts[k])]

ItemsSpaced(text) ==
    LET parts == split(text, ",")
    IN  \A k \in 2..Len(parts) : parts[k] # <<>> /\ parts[k][1] = " "

\* the hexadecimal words of an item U+XXXX or U+XXXX-YYYY
Words(item) == split(SubSeq(item, 3, Len(item)), "-")

ItemShaped(item) ==
    /\ Len(item) >= 6
    /\ item[1] = "U" /\ item[2] = "+"
    /\ Len(Words(item)) \in {1, 2}
    /\ \A k \in 1..Len(Words(item)) : HexWord(Words(item)[k])

RunLo(item) == HexVal(Words(item)[1])

RunHi(item) == HexVal(Words(item)[Len(Words(item))])

\* C4: for a list of distinct code points in any order the result is ""
\* for the empty list and otherwise items joined by ", ", each U+XXXX (one
\* code point) or U+XXXX-YYYY (a longer run), in ascending order, no two
\* adjacent or overlapping, covering exactly the code points of the list;
\* [65,66,67,90] gives "U+0041-0043, U+005A" and [5] gives "U+0005".
C4_RangeRuns ==
    pc = "ret_range" =>
        /\ codes_arg = <<>> => unicode_range = <<>>
        /\ codes_arg # <<>> =>
               LET items == Items(unicode_range)
               IN  /\ ItemsSpaced(unicode_range)
                   /\ \A k \in 1..Len(items) :
                          /\ ItemShaped(items[k])
                          /\ Len(Words(items[k])) = 1 \/ RunLo(items[k]) < RunHi(items[k])
                   /\ \A k \in 1..(Len(items) - 1) :
                          RunHi(items[k]) + 1 < RunLo(items[k + 1])
                   /\ UNION {RunLo(items[k])..RunHi(items[k]) : k \in 1..Len(items)} =
                          {codes_arg[k] : k \in 1..Len(codes_arg)}
        /\ codes_arg = <<65, 66, 67, 90>> =>
               unicode_range = <<"U", "+", "0", "0", "4", "1", "-", "0", "0", "4", "3",
                                 ",", " ", "U", "+", "0", "0", "5", "A">>
        /\ codes_arg = <<5>> => unicode_range = <<"U", "+", "0", "0", "0", "5">>

C4_Witness ==
    /\ pc = "ret_range"
    /\ Len(codes_arg) >= 3
    /\ \E k \in 1..(Len(codes_arg) - 1) : codes_arg[k] > codes_arg[k + 1]
    /\ Len(Items(unicode_range)) >= 2
    /\ \E k \in 1..Len(Items(unicode_range)) :
           RunLo(Items(unicode_range)[k]) < RunHi(Items(unicode_range)[k])

=============================================================================
